---- MODULE Spec2Model ----
(***************************************************************************)
(* A model of the sudoku solver of src/src/lib.rs: the board (a 9x9 grid   *)
(* of BoxValue cells and the unknown_values counter), mark_as_known,       *)
(* mark_single_option, fill_board, print_board and solve.                  *)
(***************************************************************************)
EXTENDS Integers, Sequences, FiniteSets, TLC

VARIABLES board, unknown_values, live, src, input, last, log, solves

vars == <<board, unknown_values, live, src, input, last, log, solves>>

(***************************************************************************)
(* Bounds of the model.                                                    *)
(***************************************************************************)
\* at most this many cells of the base grid are blanked in an input of fill
MaxBlanks == 4
\* solve is called at most this many times on one board
MaxSolveCalls == 3
\* direct commits go on until unknown_values has fallen this far below zero
MaxBelowZero == 2

(***************************************************************************)
(* Program constants.                                                      *)
(***************************************************************************)
\* the side of the grid: 0..9 loops, row > 9 checks
N == 9
\* the side of a square of the grid
SQ == 3

Min(S) == CHOOSE x \in S : \A y \in S : x <= y

(***************************************************************************)
(* Characters and their conversions.                                       *)
(***************************************************************************)
\* Option<T>: None, or Some(x)
None == <<>>
Some(x) == <<x>>
unwrap(o) == o[1]
unwrap_or(o, d) == IF o = None THEN d ELSE o[1]

\* i32_from_char: '1'..'9' give Some(1..9); every other character, '0'
\* included, gives None
i32_from_char(c) ==
    CASE c = "1" -> Some(1) [] c = "2" -> Some(2) [] c = "3" -> Some(3)
      [] c = "4" -> Some(4) [] c = "5" -> Some(5) [] c = "6" -> Some(6)
      [] c = "7" -> Some(7) [] c = "8" -> Some(8) [] c = "9" -> Some(9)
      [] OTHER -> None

\* char_from32 with the arm of 9 left out
char_from32_no9(v) ==
    CASE v = 0 -> Some("0") [] v = 1 -> Some("1") [] v = 2 -> Some("2") [] v = 3 -> Some("3")
      [] v = 4 -> Some("4") [] v = 5 -> Some("5") [] v = 6 -> Some("6")
      [] v = 7 -> Some("7") [] v = 8 -> Some("8")
      [] OTHER -> None

\* char_from32: 0..9 give Some('0'..'9'), anything else None
char_from32(v) ==
    CASE v = 0 -> Some("0") [] v = 1 -> Some("1") [] v = 2 -> Some("2") [] v = 3 -> Some("3")
      [] v = 4 -> Some("4") [] v = 5 -> Some("5") [] v = 6 -> Some("6")
      [] v = 7 -> Some("7") [] v = 8 -> Some("8") [] v = 9 -> Some("9")
      [] OTHER -> None

(***************************************************************************)
(* BoxValue: Known(i32) or Unknown(BTreeSet<i32>).                         *)
(***************************************************************************)
Known(v) == [tag |-> "Known", v |-> v, set |-> {}]
Unknown(s) == [tag |-> "Unknown", v |-> 0, set |-> s]

init_unknown == Unknown(1..N)

IsKnown(x) == x.tag = "Known"
IsUnknown(x) == x.tag = "Unknown"

(***************************************************************************)
(* Node::get_square and Node::reverse_square (usize arithmetic; the        *)
(* callers of the model pass 1..9 and 0..8 only).                          *)
(***************************************************************************)
get_square(row, col) == ((row - 1) \div SQ) * SQ + ((col - 1) \div SQ) + 1

\* reverse_square with the row band taken by % instead of /
reverse_square_wrong_band(square_id, idx) ==
    LET r_mult == (square_id - 1) % SQ
        c_mult == (square_id - 1) % SQ
    IN  <<(r_mult * SQ) + (idx \div SQ) + 1, (c_mult * SQ) + (idx % SQ) + 1>>

reverse_square(square_id, idx) ==
    LET r_mult == (square_id - 1) \div SQ
        c_mult == (square_id - 1) % SQ
    IN  <<(r_mult * SQ) + (idx \div SQ) + 1, (c_mult * SQ) + (idx % SQ) + 1>>

(***************************************************************************)
(* SudokuBoard::new                                                        *)
(***************************************************************************)
NewBoard == [r \in 1..N |-> [c \in 1..N |-> init_unknown]]

\* board.iter().flatten(): position k of the row-major order, k in 1..81
RowOf(k) == ((k - 1) \div N) + 1
ColOf(k) == ((k - 1) % N) + 1
Flat(b, k) == b[RowOf(k)][ColOf(k)]

(***************************************************************************)
(* SudokuBoard::mark_as_known.  The result is the board and the counter    *)
(* the call leaves behind and the value it returns; "Panic" is the panic   *)
(* of row - 1 or col - 1 on a zero usize (overflow, or unwrap of None).    *)
(***************************************************************************)
\* the cells the loop "for i in 0..9" visits, in the order it visits them
ScanOrder(row, col) ==
    LET sq == get_square(row, col)
    IN  [j \in 1..(3 * N) |->
            LET i == (j - 1) \div 3
            IN  CASE (j - 1) % 3 = 0 -> <<row, i + 1>>
                  [] (j - 1) % 3 = 1 -> <<i + 1, col>>
                  [] OTHER -> reverse_square(sq, i)]

\* the scan of mark_as_known over a board b1 whose target cell is already
\* Known: the positions of the order at which removing known_value leaves an
\* Unknown cell empty (the scan returns at the first of them), and the board
\* with known_value removed from the Unknown cells of the positions visited
EmptiedAt(b1, order, known_value) ==
    {j \in 1..Len(order) :
        LET x == b1[order[j][1]][order[j][2]]
        IN  IsUnknown(x) /\ x.set \ {known_value} = {}}

ScanBoard(b1, order, upto, known_value) ==
    LET visited == {order[j] : j \in 1..upto}
    IN  [r \in 1..N |-> [c \in 1..N |->
            IF <<r, c>> \in visited /\ IsUnknown(b1[r][c])
            THEN Unknown(b1[r][c].set \ {known_value})
            ELSE b1[r][c]]]

mark_as_known(b, u, row, col, known_value) ==
    IF row > N \/ col > N
    THEN [board |-> b, unknown_values |-> u, res |-> "InvalidRange"]
    ELSE IF row = 0 \/ col = 0
    THEN [board |-> b, unknown_values |-> u, res |-> "Panic"]
    ELSE LET b1    == [b EXCEPT ![row][col] = Known(known_value)]
             order == ScanOrder(row, col)
             stops == EmptiedAt(b1, order, known_value)
         IN  IF stops = {}
             THEN [board |-> ScanBoard(b1, order, Len(order), known_value),
                   unknown_values |-> u - 1, res |-> "Ok"]
             ELSE [board |-> ScanBoard(b1, order, Min(stops), known_value),
                   unknown_values |-> u, res |-> "NotSolvable"]

(***************************************************************************)
(* SudokuBoard::mark_single_option                                         *)
(***************************************************************************)
mark_single_option(b, u, row, col) ==
    IF row > N \/ col > N
    THEN [board |-> b, unknown_values |-> u, res |-> "InvalidRange"]
    ELSE IF row = 0 \/ col = 0
    THEN [board |-> b, unknown_values |-> u, res |-> "Panic"]
    ELSE LET x == b[row][col]
         IN  IF IsKnown(x)
             THEN [board |-> b, unknown_values |-> u, res |-> "AlreadyKnown"]
             ELSE IF x.set = {}
             THEN [board |-> b, unknown_values |-> u, res |-> "NotSolvable"]
             ELSE IF Cardinality(x.set) # 1
             THEN [board |-> b, unknown_values |-> u, res |-> "TooManyOptions"]
             ELSE mark_as_known(b, u, row, col, Min(x.set))

(***************************************************************************)
(* SudokuBoard::fill_board                                                 *)
(***************************************************************************)
\* the filter of fill_board: the characters that take a position of the grid
Recognized(c) == c \in {"0", "1", "2", "3", "4", "5", "6", "7", "8", "9", "-"}

\* one turn of the loop of fill_board: character j (1-based) of the filtered
\* characters cs
FillStep(st, cs, j) ==
    LET i     == j - 1
        row   == (i \div N) + 1
        col   == (i % N) + 1
        value == i32_from_char(cs[j])
    IN  IF value = None THEN st
        ELSE mark_as_known(st.board, st.unknown_values, row, col, unwrap(value))

\* the loop over characters lo..hi, in order; the ? operator returns at the
\* first commit that fails, so no later character is looked at
RECURSIVE FillRange(_, _, _, _)
FillRange(st, cs, lo, hi) ==
    IF st.res # "Ok" \/ lo > hi THEN st
    ELSE IF lo = hi THEN FillStep(st, cs, lo)
    ELSE LET mid == (lo + hi) \div 2
         IN  FillRange(FillRange(st, cs, lo, mid), cs, mid + 1, hi)

fill_board(s) ==
    LET cs == SelectSeq(s, Recognized)
    IN  FillRange([board |-> NewBoard, unknown_values |-> N * N, res |-> "Ok"],
                  cs, 1, Len(cs))

(***************************************************************************)
(* SudokuBoard::print_board                                                *)
(***************************************************************************)
print_board(b) ==
    [k \in 1..(N * N) |->
        LET x == Flat(b, k)
        IN  IF IsKnown(x)
            THEN unwrap_or(char_from32(x.v), "?")
            ELSE "-"]

(***************************************************************************)
(* SudokuBoard::solve.  The result is the board and the counter the call   *)
(* leaves in self, the value it returns ("Panic": the unwrap of the        *)
(* minimum of no sizes) and what it did, in order, the clones included:    *)
(*   <<"forced", depth, row, col, value, result of mark_single_option>>    *)
(*   <<"branch", depth, row, col, alt_set, unknown_values>>                *)
(*   <<"guess", depth, row, col, value, result of mark_as_known>>          *)
(*   <<"back", depth, row, col, value, result of the clone's solve>>       *)
(* where depth is the number of clones the call is nested in.              *)
(***************************************************************************)
\* an iteration that stops after the first (smallest) element
BTreeIterFirstOnly(s) == <<Min(s)>>

\* the iteration order of a BTreeSet<i32>, largest first
BTreeIterDescending(s) ==
    [i \in 1..Cardinality(s) |->
        CHOOSE x \in s : Cardinality({y \in s : y > x}) = i - 1]

\* the iteration order of a BTreeSet<i32>: ascending
BTreeIter(s) ==
    [i \in 1..Cardinality(s) |->
        CHOOSE x \in s : Cardinality({y \in s : y < x}) = i - 1]

\* a find() whose guard is v.len() >= len
UnknownWithLenOrMore(b, len) ==
    {k \in 1..(N * N) : IsUnknown(Flat(b, k)) /\ Cardinality(Flat(b, k).set) >= len}

\* the positions find() looks through, for Unknown cells with len candidates
UnknownWithLen(b, len) ==
    {k \in 1..(N * N) : IsUnknown(Flat(b, k)) /\ Cardinality(Flat(b, k).set) = len}

\* the sizes min() is taken of: the candidate counts above 0
AlternativeSizes(b) ==
    {Cardinality(Flat(b, k).set) : k \in {j \in 1..(N * N) : IsUnknown(Flat(b, j))}} \ {0}

\* a turn of the loop "while self.unknown_values > 1": it leaves the loop,
\* and solve returns Ok, with one cell still to commit
LoopStepOffByOne(st, d) ==
    IF st.res # "Run" THEN st
    ELSE IF ~(st.unknown_values > 1) THEN [st EXCEPT !.res = "Ok"]
    ELSE IF UnknownWithLen(st.board, 1) = {} THEN [st EXCEPT !.res = "Branch"]
    ELSE LET k  == Min(UnknownWithLen(st.board, 1))
             m  == mark_single_option(st.board, st.unknown_values, RowOf(k), ColOf(k))
             ev == <<"forced", d, RowOf(k), ColOf(k), Min(Flat(st.board, k).set), m.res>>
         IN  [board |-> m.board, unknown_values |-> m.unknown_values,
              res |-> IF m.res = "Ok" THEN "Run" ELSE m.res,
              log |-> Append(st.log, ev)]

\* a turn whose find() searches from the end: it commits the last cell in
\* row-major order that has one candidate
LoopStepLastSingle(st, d) ==
    IF st.res # "Run" THEN st
    ELSE IF ~(st.unknown_values > 0) THEN [st EXCEPT !.res = "Ok"]
    ELSE IF UnknownWithLen(st.board, 1) = {} THEN [st EXCEPT !.res = "Branch"]
    ELSE LET k  == 0 - Min({0 - j : j \in UnknownWithLen(st.board, 1)})
             m  == mark_single_option(st.board, st.unknown_values, RowOf(k), ColOf(k))
             ev == <<"forced", d, RowOf(k), ColOf(k), Min(Flat(st.board, k).set), m.res>>
         IN  [board |-> m.board, unknown_values |-> m.unknown_values,
              res |-> IF m.res = "Ok" THEN "Run" ELSE m.res,
              log |-> Append(st.log, ev)]

\* a turn that commits the forced move on a copy of the board and goes on
\* with the board as it was
LoopStepOnCopy(st, d) ==
    IF st.res # "Run" THEN st
    ELSE IF ~(st.unknown_values > 0) THEN [st EXCEPT !.res = "Ok"]
    ELSE IF UnknownWithLen(st.board, 1) = {} THEN [st EXCEPT !.res = "Branch"]
    ELSE LET k  == Min(UnknownWithLen(st.board, 1))
             m  == mark_single_option(st.board, st.unknown_values, RowOf(k), ColOf(k))
             ev == <<"forced", d, RowOf(k), ColOf(k), Min(Flat(st.board, k).set), m.res>>
         IN  [board |-> st.board, unknown_values |-> st.unknown_values,
              res |-> IF m.res = "Ok" THEN "Run" ELSE m.res,
              log |-> Append(st.log, ev)]

\* a turn whose find() stops one cell short of the end of the board: a last
\* cell with one candidate is not found
LoopStepSkipsLastCell(st, d) ==
    IF st.res # "Run" THEN st
    ELSE IF ~(st.unknown_values > 0) THEN [st EXCEPT !.res = "Ok"]
    ELSE IF UnknownWithLen(st.board, 1) \ {N * N} = {} THEN [st EXCEPT !.res = "Branch"]
    ELSE LET k  == Min(UnknownWithLen(st.board, 1) \ {N * N})
             m  == mark_single_option(st.board, st.unknown_values, RowOf(k), ColOf(k))
             ev == <<"forced", d, RowOf(k), ColOf(k), Min(Flat(st.board, k).set), m.res>>
         IN  [board |-> m.board, unknown_values |-> m.unknown_values,
              res |-> IF m.res = "Ok" THEN "Run" ELSE m.res,
              log |-> Append(st.log, ev)]

\* one turn of "while self.unknown_values > 0" as long as the turn is a forced
\* move; res is "Run" while the loop goes on, "Branch" when find() returned
\* None, and else the value the call returns
LoopStep(st, d) ==
    IF st.res # "Run" THEN st
    ELSE IF ~(st.unknown_values > 0) THEN [st EXCEPT !.res = "Ok"]
    ELSE IF UnknownWithLen(st.board, 1) = {} THEN [st EXCEPT !.res = "Branch"]
    ELSE LET k  == Min(UnknownWithLen(st.board, 1))
             m  == mark_single_option(st.board, st.unknown_values, RowOf(k), ColOf(k))
             ev == <<"forced", d, RowOf(k), ColOf(k), Min(Flat(st.board, k).set), m.res>>
         IN  [board |-> m.board, unknown_values |-> m.unknown_values,
              res |-> IF m.res = "Ok" THEN "Run" ELSE m.res,
              log |-> Append(st.log, ev)]

\* n turns of the loop; every forced move makes one more cell Known, so the
\* loop has left its forced moves after at most N * N turns
RECURSIVE LoopTurns(_, _, _)
LoopTurns(st, d, n) ==
    IF st.res # "Run" \/ n = 0 THEN st
    ELSE IF n = 1 THEN LoopStep(st, d)
    ELSE LoopTurns(LoopTurns(st, d, n \div 2), d, n - (n \div 2))

RECURSIVE Solve(_, _, _), TryAlts(_, _, _, _, _, _)
\* a solve whose second find() searches from the end: it branches on the last
\* cell in row-major order that has the minimum number of candidates
SolveLastOfMin(b, u, d) ==
    LET st == LoopTurns([board |-> b, unknown_values |-> u, res |-> "Run", log |-> <<>>],
                        d, N * N + 1)
    IN  IF st.res # "Branch" THEN st
        ELSE IF AlternativeSizes(st.board) = {}
        THEN [st EXCEPT !.res = "Panic"]
        ELSE LET min_alternatives == Min(AlternativeSizes(st.board))
                 found == UnknownWithLen(st.board, min_alternatives)
                 pick  == 0 - Min({0 - j : j \in found})
             IN  IF found = {}
                 THEN [st EXCEPT !.res = "Unknown"]
                 ELSE LET t == TryAlts(st.board, st.unknown_values, d, pick,
                                       BTreeIter(Flat(st.board, pick).set), 1)
                          ev == <<"branch", d, RowOf(pick), ColOf(pick),
                                  Flat(st.board, pick).set, st.unknown_values>>
                      IN  [t EXCEPT !.log = Append(st.log, ev) \o t.log]

Solve(b, u, d) ==
    LET st == LoopTurns([board |-> b, unknown_values |-> u, res |-> "Run", log |-> <<>>],
                        d, N * N + 1)
    IN  IF st.res # "Branch" THEN st
        ELSE IF AlternativeSizes(st.board) = {}
        THEN [st EXCEPT !.res = "Panic"]
        ELSE LET min_alternatives == Min(AlternativeSizes(st.board))
                 found == UnknownWithLen(st.board, min_alternatives)
             IN  IF found = {}
                 THEN [st EXCEPT !.res = "Unknown"]
                 ELSE LET t == TryAlts(st.board, st.unknown_values, d, Min(found),
                                       BTreeIter(Flat(st.board, Min(found)).set), 1)
                          ev == <<"branch", d, RowOf(Min(found)), ColOf(Min(found)),
                                  Flat(st.board, Min(found)).set, st.unknown_values>>
                      IN  [t EXCEPT !.log = Append(st.log, ev) \o t.log]

\* alternatives tried on the board itself instead of a clone of it: the next
\* alternative starts from what the failed one left
TryAltsNoClone(b, u, d, k, alts, i) ==
    IF i > Len(alts)
    THEN [board |-> b, unknown_values |-> u, res |-> "NotSolvable", log |-> <<>>]
    ELSE LET m   == mark_as_known(b, u, RowOf(k), ColOf(k), alts[i])
             s   == Solve(m.board, m.unknown_values, d + 1)
             evs == <<<<"guess", d, RowOf(k), ColOf(k), alts[i], m.res>>>> \o s.log
                    \o <<<<"back", d, RowOf(k), ColOf(k), alts[i], s.res>>>>
         IN  IF s.res = "Ok"
             THEN [board |-> s.board, unknown_values |-> s.unknown_values,
                   res |-> "Ok", log |-> evs]
             ELSE IF s.res = "Panic"
             THEN [board |-> b, unknown_values |-> u, res |-> "Panic", log |-> evs]
             ELSE LET rest == TryAlts(m.board, m.unknown_values, d, k, alts, i + 1)
                  IN  [rest EXCEPT !.log = evs \o rest.log]

TryAlts(b, u, d, k, alts, i) ==
    IF i > Len(alts)
    THEN [board |-> b, unknown_values |-> u, res |-> "NotSolvable", log |-> <<>>]
    ELSE LET m   == mark_as_known(b, u, RowOf(k), ColOf(k), alts[i])
             s   == Solve(m.board, m.unknown_values, d + 1)
             evs == <<<<"guess", d, RowOf(k), ColOf(k), alts[i], m.res>>>> \o s.log
                    \o <<<<"back", d, RowOf(k), ColOf(k), alts[i], s.res>>>>
         IN  IF s.res = "Ok"
             THEN [board |-> s.board, unknown_values |-> s.unknown_values,
                   res |-> "Ok", log |-> evs]
             ELSE IF s.res = "Panic"
             THEN [board |-> b, unknown_values |-> u, res |-> "Panic", log |-> evs]
             ELSE LET rest == TryAlts(b, u, d, k, alts, i + 1)
                  IN  [rest EXCEPT !.log = evs \o rest.log]

solve(b, u) == Solve(b, u, 0)

(***************************************************************************)
(* The inputs of fill_board: the solved grid of tests::test_solve with     *)
(* some cells blanked and possibly one given changed, plus inputs with a   *)
(* character the filter skips and inputs of more than 81 characters.       *)
(***************************************************************************)
Base ==
    << 5,8,1,3,2,7,6,4,9,
       9,2,4,8,6,1,7,5,3,
       3,6,7,4,5,9,1,8,2,
       4,9,3,2,1,6,5,7,8,
       8,7,6,9,4,5,2,3,1,
       1,5,2,7,3,8,9,6,4,
       7,4,8,6,9,2,3,1,5,
       2,3,5,1,7,4,8,9,6,
       6,1,9,5,8,3,4,2,7 >>

\* positions (row-major, 1..81) that the inputs blank: (1,8), (1,9) and a
\* rectangle (2,5), (2,6), (4,5), (4,6) whose digits can be swapped; and,
\* with the 4 of (6,9) changed to 9, (1,8), (1,9), (6,7), (9,7)
BlankCells == {8, 9, 14, 15, 32, 33}
BlankSets == {S \in SUBSET BlankCells : Cardinality(S) <= MaxBlanks}
AlteredBlankCells == {8, 9, 52, 79}
AlteredBlankSets == {S \in SUBSET AlteredBlankCells : Cardinality(S) <= MaxBlanks}

\* a changed given: <<position, digit>>; <<0, 0>> changes nothing
NoAlter == <<0, 0>>

DigitChar(d) == <<"1", "2", "3", "4", "5", "6", "7", "8", "9">>[d]

MkInput(blanks, ph, alt) ==
    [k \in 1..(N * N) |->
        IF k \in blanks THEN ph
        ELSE IF k = alt[1] THEN DigitChar(alt[2])
        ELSE DigitChar(Base[k])]

InsertAt(s, j, c) == SubSeq(s, 1, j - 1) \o <<c>> \o SubSeq(s, j, Len(s))

\* the puzzle of tests::test_solve
TestSolveInput ==
    << "5","0","0","3","0","0","6","0","0",
       "0","0","4","0","0","1","7","5","0",
       "0","0","0","0","5","9","1","0","0",
       "4","0","3","2","0","0","0","7","0",
       "0","0","6","0","0","0","0","0","0",
       "0","0","0","0","0","0","9","0","4",
       "7","0","0","0","9","0","3","1","5",
       "0","3","5","0","0","0","8","0","6",
       "6","1","9","0","8","0","0","0","0" >>

\* the same puzzle with a 2 given at (2,5): no digit repeats, and it has no
\* solution
NoSolutionInput == [TestSolveInput EXCEPT ![14] = "2"]

\* the same puzzle with a 2 given at (2,7): no digit repeats, a first solve
\* fails in a forced move and leaves a cell without candidates among cells
\* with several
EmptySetInput == [TestSolveInput EXCEPT ![16] = "2"]

\* the same puzzle without the 3 given at (7,7): the clone of a guess guesses
\* again
NestedInput == [TestSolveInput EXCEPT ![61] = "0"]

\* the puzzle of tests::test_fill_board
TestFillInput ==
    << "4","-","-","-","-","8","-","-","-",
       "-","-","-","-","9","1","-","8","-",
       "-","8","6","5","-","2","-","3","-",
       "-","2","-","4","-","-","9","-","-",
       "-","1","-","2","-","-","-","-","6",
       "3","6","7","-","5","9","-","-","-",
       "-","-","-","-","-","5","-","-","-",
       "7","-","-","8","-","-","-","2","4",
       "2","-","-","9","3","-","-","7","-" >>

Inputs ==
    {MkInput(bl, "-", NoAlter) : bl \in BlankSets}
    \cup {MkInput(bl, "-", <<54, 9>>) : bl \in AlteredBlankSets}
    \cup {MkInput(bl, "-", alt) : bl \in SUBSET {8, 9}, alt \in {<<2, 5>>, <<9, 4>>}}
    \cup {MkInput(bl, "0", NoAlter) : bl \in {S \in BlankSets : Cardinality(S) <= 2}}
    \cup {InsertAt(MkInput(bl, "-", NoAlter), N + 1, " ") : bl \in {{}, {8}, {14, 33}}}
    \cup {Append(MkInput({}, "-", NoAlter), c) : c \in {"7", "-"}}
    \cup {TestSolveInput, TestFillInput, NoSolutionInput, EmptySetInput, NestedInput}

\* the arguments of the direct calls of mark_as_known and mark_single_option:
\* two cells of row 1, and a row or a column of 0 or 10
CommitCells == {<<1, 1>>, <<1, 8>>, <<0, 1>>, <<1, 0>>, <<10, 1>>, <<1, 10>>}
CommitValues == {5}

(***************************************************************************)
(* The state machine.                                                      *)
(***************************************************************************)
Op(op, row, col, value, res) ==
    [op |-> op, row |-> row, col |-> col, value |-> value, res |-> res]

Init ==
    /\ board = NewBoard
    /\ unknown_values = N * N
    /\ live = "board"
    /\ src = "new"
    /\ input = <<>>
    /\ last = Op("new", 0, 0, 0, "Ok")
    /\ log = <<>>
    /\ solves = 0

MarkAsKnown(row, col, value) ==
    /\ live = "board"
    /\ src \in {"new", "commit"}
    /\ unknown_values > 0 - MaxBelowZero
    /\ LET m == mark_as_known(board, unknown_values, row, col, value)
       IN  /\ board' = m.board
           /\ unknown_values' = m.unknown_values
           /\ live' = IF m.res = "Panic" THEN "aborted" ELSE "board"
           /\ last' = Op("mark_as_known", row, col, value, m.res)
    /\ src' = "commit"
    /\ UNCHANGED <<input, log, solves>>

MarkSingleOption(row, col) ==
    /\ live = "board"
    /\ src \in {"new", "commit", "fill", "forced"}
    /\ unknown_values > 0 - MaxBelowZero
    /\ LET m == mark_single_option(board, unknown_values, row, col)
       IN  /\ board' = m.board
           /\ unknown_values' = m.unknown_values
           /\ live' = IF m.res = "Panic" THEN "aborted" ELSE "board"
           /\ last' = Op("mark_single_option", row, col, 0, m.res)
    /\ src' = IF src \in {"fill", "forced"} THEN "forced" ELSE "commit"
    /\ UNCHANGED <<input, log, solves>>

FillBoard(s) ==
    /\ live = "board"
    /\ src = "new"
    /\ LET f == fill_board(s)
       IN  /\ board' = f.board
           /\ unknown_values' = f.unknown_values
           /\ live' = IF f.res = "Ok" THEN "board" ELSE "dropped"
           /\ last' = Op("fill_board", 0, 0, 0, f.res)
    /\ src' = "fill"
    /\ input' = s
    /\ UNCHANGED <<log, solves>>

SolveCall ==
    /\ live = "board"
    /\ src \in {"fill", "solve"}
    /\ solves < MaxSolveCalls
    /\ LET s == solve(board, unknown_values)
       IN  /\ board' = s.board
           /\ unknown_values' = s.unknown_values
           /\ live' = IF s.res = "Panic" THEN "aborted" ELSE "board"
           /\ last' = Op("solve", 0, 0, 0, s.res)
           /\ log' = s.log
    /\ src' = "solve"
    /\ solves' = solves + 1
    /\ UNCHANGED input

Next ==
    \/ \E rc \in CommitCells, value \in CommitValues : MarkAsKnown(rc[1], rc[2], value)
    \/ \E rc \in CommitCells : MarkSingleOption(rc[1], rc[2])
    \/ \E s \in Inputs : FillBoard(s)
    \/ SolveCall

Spec == Init /\ [][Next]_vars

(***************************************************************************)
(* Vocabulary of the properties: the rules of sudoku, stated on positions  *)
(* 1..81 without the propagation code.                                     *)
(***************************************************************************)
Positions == 1..(N * N)
Digits == 1..N
BlockOf(k) == <<(RowOf(k) - 1) \div SQ, (ColOf(k) - 1) \div SQ>>
ArePeers(j, k) ==
    /\ j # k
    /\ \/ RowOf(j) = RowOf(k)
       \/ ColOf(j) = ColOf(k)
       \/ BlockOf(j) = BlockOf(k)
Units ==
    {{k \in Positions : RowOf(k) = r} : r \in 1..N}
    \cup {{k \in Positions : ColOf(k) = c} : c \in 1..N}
    \cup {{k \in Positions : BlockOf(k) = <<x, y>>} : x \in 0..(SQ - 1), y \in 0..(SQ - 1)}

\* the digits an input gives: position k of its recognized characters, as
\* Some(digit) or None
Givens(s) ==
    LET cs == SelectSeq(s, Recognized)
    IN  [k \in Positions |-> IF k <= Len(cs) THEN i32_from_char(cs[k]) ELSE None]

NoRepeat(g) ==
    \A j \in Positions : \A k \in Positions :
        (ArePeers(j, k) /\ g[j] # None) => g[j] # g[k]

RowRepeat(g) ==
    \E j \in Positions : \E k \in Positions :
        j # k /\ RowOf(j) = RowOf(k) /\ g[j] # None /\ g[j] = g[k]

\* the unknown cells of a board, and whether no two Known peers agree
UnknownCells(b) == {k \in Positions : IsUnknown(Flat(b, k))}
NoKnownTwice(b) ==
    \A j \in Positions : \A k \in Positions :
        (ArePeers(j, k) /\ IsKnown(Flat(b, j)) /\ IsKnown(Flat(b, k)))
            => Flat(b, j).v # Flat(b, k).v

\* the board is a finished sudoku: every unit holds every digit once
Finished(b) ==
    /\ \A k \in Positions : IsKnown(Flat(b, k))
    /\ \A U \in Units : \A d \in Digits :
          Cardinality({k \in U : Flat(b, k) = Known(d)}) = 1

\* the completions of the givens g, found without the solver: every hole
\* takes a digit no given peer has, and no two peer holes take the same
Holes(g) == {k \in Positions : g[k] = None}
Free(g, k) == Digits \ {g[j][1] : j \in {i \in Positions : ArePeers(i, k) /\ g[i] # None}}
Completions(g) ==
    LET H    == Holes(g)
        free == [k \in H |-> Free(g, k)]
    IN  {f \in [H -> UNION {free[k] : k \in H}] :
            /\ \A k \in H : f[k] \in free[k]
            /\ \A j \in H : \A k \in H : ArePeers(j, k) => f[j] # f[k]}

\* the finished grid w extends the givens g
Extends(w, g) ==
    /\ \A U \in Units : \A d \in Digits : Cardinality({k \in U : w[k] = d}) = 1
    /\ \A k \in Positions : g[k] # None => g[k] = Some(w[k])

\* the solution of tests::test_fill_board's puzzle
FillSolution ==
    << 4,9,2,3,7,8,1,6,5,
       5,7,3,6,9,1,4,8,2,
       1,8,6,5,4,2,7,3,9,
       8,2,5,4,6,3,9,1,7,
       9,1,4,2,8,7,3,5,6,
       3,6,7,1,5,9,2,4,8,
       6,4,1,7,2,5,8,9,3,
       7,3,9,8,1,6,5,2,4,
       2,5,8,9,3,4,6,7,1 >>

\* whether the givens have a completion: decided by enumeration when the
\* holes are few; with more holes a known solution shows that they have one
Enumerable(g) == Cardinality(Holes(g)) <= MaxBlanks + 1
HasSolution(g) ==
    IF Enumerable(g) THEN NoRepeat(g) /\ Completions(g) # {}
    ELSE Extends(Base, g) \/ Extends(FillSolution, g)

\* the events of the log of the last solve of a kind at depth 0
LogAt0(kind) == SelectSeq(log, LAMBDA e : e[1] = kind /\ e[2] = 0)

(***************************************************************************)
(* C1.  Soundness of solve: on a board that fill returned for givens that  *)
(* do not repeat in a row, column or block, a solve that returns Ok leaves *)
(* unknown_values = 0 and every cell Known, every row, column and block    *)
(* holding each digit 1..9 exactly once, and every given digit in place.   *)
(***************************************************************************)
C1_SolveSound ==
    (src = "solve" /\ last.res = "Ok" /\ NoRepeat(Givens(input))) =>
        /\ unknown_values = 0
        /\ Finished(board)
        /\ LET g == Givens(input)
           IN  \A k \in Positions : g[k] # None => Flat(board, k) = Known(g[k][1])

\* a solve that returned Ok after a guess that failed and one that did not
C1_Witness ==
    /\ src = "solve" /\ last.res = "Ok" /\ NoRepeat(Givens(input))
    /\ Holes(Givens(input)) # {}
    /\ \E i \in 1..Len(log) : log[i][1] = "back" /\ log[i][6] = "NotSolvable"
    /\ \E i \in 1..Len(log) : log[i][1] = "forced"

(***************************************************************************)
(* C2.  Completeness of solve: the first solve on a board that fill        *)
(* returned gives Ok whenever the givens have a completion without a       *)
(* repeated digit, and gives NotSolvable only when they have none (the     *)
(* latter checked on the inputs whose completions can be enumerated).      *)
(***************************************************************************)
C2_SolveComplete ==
    (src = "solve" /\ solves = 1) =>
        LET g == Givens(input)
        IN  /\ HasSolution(g) => last.res = "Ok"
            /\ (last.res = "NotSolvable" /\ Enumerable(g)) => ~HasSolution(g)

\* a puzzle whose givens do not repeat and that has no completion: refused
C2_Witness ==
    /\ src = "solve" /\ solves = 1 /\ last.res = "NotSolvable"
    /\ NoRepeat(Givens(input))
    /\ Enumerable(Givens(input)) /\ ~HasSolution(Givens(input))

(***************************************************************************)
(* C3.  fill rejects row duplicates: an input with the same digit at two   *)
(* positions of one row makes fill_board return NotSolvable.               *)
(***************************************************************************)
C3_FillRejectsRowDuplicate ==
    (src = "fill" /\ RowRepeat(Givens(input))) => last.res = "NotSolvable"

(***************************************************************************)
(* C4.  Round trip of fill and render: for an input of 81 characters, all  *)
(* of them digits '1'-'9', '-' or '0', on which fill succeeds,             *)
(* print_board(fill_board(s)) = s.                                         *)
(***************************************************************************)
OnlyChars(s, cs) == Len(s) = N * N /\ \A k \in 1..Len(s) : s[k] \in cs
DigitChars == {"1", "2", "3", "4", "5", "6", "7", "8", "9"}

C4_RoundTrip ==
    (src = "fill" /\ last.res = "Ok" /\ OnlyChars(input, DigitChars \cup {"-", "0"}))
        => print_board(board) = input

(***************************************************************************)
(* C4, as amended.  print_board(fill_board(s)) = s for inputs of 81        *)
(* characters that are digits '1'-'9' or '-'; a '0' is read as an unknown  *)
(* cell like '-', and is printed as '-'.                                   *)
(***************************************************************************)
C4_RoundTripDash ==
    (src = "fill" /\ last.res = "Ok" /\ OnlyChars(input, DigitChars \cup {"-", "0"}))
        => print_board(board) = [k \in 1..(N * N) |-> IF input[k] = "0" THEN "-" ELSE input[k]]

\* a board filled from digits and dashes, some cells unknown, a 9 among them
C4_Witness ==
    /\ src = "fill" /\ last.res = "Ok" /\ OnlyChars(input, DigitChars \cup {"-"})
    /\ \E k \in 1..Len(input) : input[k] = "-"
    /\ \E k \in 1..Len(input) : input[k] = "9"
    /\ print_board(board) = input

(***************************************************************************)
(* C5.  unknown_count invariant: whenever a board exists, unknown_values   *)
(* is the number of Unknown cells, and it is 0 exactly when all 81 cells   *)
(* are Known.                                                              *)
(***************************************************************************)
C5_UnknownCountInvariant ==
    live = "board" =>
        /\ unknown_values = Cardinality(UnknownCells(board))
        /\ unknown_values = 0 <=> UnknownCells(board) = {}

(***************************************************************************)
(* C6.  No duplicate known digit after commit: on a board reached from     *)
(* new() by calls of mark_as_known with row, col, value in 1..9, after a   *)
(* call that returned Ok no row, column or block holds the same Known      *)
(* digit in two cells.                                                     *)
(***************************************************************************)
C6_NoDuplicateAfterCommit ==
    (src = "commit" /\ last.op = "mark_as_known" /\ last.res = "Ok")
        => NoKnownTwice(board)

(***************************************************************************)
(* C7.  Failures are returned, never fatal: no call of solve on a board    *)
(* that fill returned panics, a call after an earlier call returned an     *)
(* error included.                                                         *)
(***************************************************************************)
C7_SolveNeverPanics ==
    src = "solve" => (live # "aborted" /\ last.res # "Panic")

(***************************************************************************)
(* C8.  unknown_count step and bound: every commit that returns Ok lowers  *)
(* unknown_values by exactly 1, and unknown_values is never negative.      *)
(***************************************************************************)
CommitStep ==
    /\ last'.op \in {"mark_as_known", "mark_single_option"}
    /\ last'.res = "Ok"

C8_CountStepAndBound ==
    [][/\ CommitStep => unknown_values' = unknown_values - 1
       /\ unknown_values' >= 0]_vars

(***************************************************************************)
(* C9.  Propagation of commit reaches exactly the peers: after a commit of *)
(* value at (row, col) that returns Ok, the target cell is Known(value),   *)
(* no Unknown cell of its row, column or block has value as a candidate,   *)
(* and every cell that is not a peer of the target is as it was.           *)
(***************************************************************************)
C9_CommitReachesPeers ==
    [][CommitStep =>
        LET t == (last'.row - 1) * N + last'.col
            v == IF last'.op = "mark_as_known" THEN last'.value
                 ELSE Min(board[last'.row][last'.col].set)
        IN  /\ Flat(board', t) = Known(v)
            /\ \A k \in Positions \ {t} :
                  IF ArePeers(k, t)
                  THEN IsUnknown(Flat(board', k)) => v \notin Flat(board', k).set
                  ELSE Flat(board', k) = Flat(board, k)]_vars

\* 5 committed at (1,8): gone from a cell of its block and one of its column,
\* still a candidate of (9,9), which is no peer of it
C9_Witness ==
    /\ last.op = "mark_as_known" /\ last.res = "Ok" /\ last.row = 1 /\ last.col = 8
    /\ board[1][8] = Known(5)
    /\ IsUnknown(board[3][9]) /\ 5 \notin board[3][9].set
    /\ IsUnknown(board[9][8]) /\ 5 \notin board[9][8].set
    /\ IsUnknown(board[9][9]) /\ 5 \in board[9][9].set

(***************************************************************************)
(* C10.  Branch order and first success wins: a solve that branches tries  *)
(* the candidates of the one cell it branches on in ascending order; every *)
(* candidate tried before the last one failed; if solve returns Ok the     *)
(* last one tried succeeded, the cell holds it, and no larger candidate    *)
(* was tried; if solve returns NotSolvable every candidate was tried.      *)
(***************************************************************************)
C10_BranchOrder ==
    (src = "solve" /\ LogAt0("branch") # <<>>) =>
        LET br   == LogAt0("branch")[1]
            G    == LogAt0("guess")
            B    == LogAt0("back")
            alts == br[5]
        IN  /\ Len(LogAt0("branch")) = 1
            /\ Len(G) >= 1 /\ Len(B) = Len(G) /\ Len(G) <= Cardinality(alts)
            /\ \A i \in 1..Len(G) :
                  /\ G[i][3] = br[3] /\ G[i][4] = br[4]
                  /\ B[i][3] = br[3] /\ B[i][4] = br[4] /\ B[i][5] = G[i][5]
                  /\ G[i][5] \in alts
                  /\ Cardinality({y \in alts : y < G[i][5]}) = i - 1
            /\ \A i \in 1..(Len(G) - 1) : B[i][6] # "Ok"
            /\ last.res = "Ok" <=> B[Len(B)][6] = "Ok"
            /\ last.res = "Ok" => board[br[3]][br[4]] = Known(G[Len(G)][5])
            /\ last.res = "NotSolvable" => Len(G) = Cardinality(alts)

\* a solve that adopted the clone of its first candidate and left a larger
\* one untried
C10_Witness ==
    /\ src = "solve" /\ last.res = "Ok" /\ LogAt0("branch") # <<>>
    /\ Len(LogAt0("guess")) < Cardinality(LogAt0("branch")[1][5])
    /\ UnknownCells(board) = {}

(***************************************************************************)
(* Vocabulary of the properties of a run of solve: the boards of the run,  *)
(* rebuilt from the log of the call and the board it was called on.  A     *)
(* stack holds the board of the call (depth 0) and of the clones open      *)
(* above it; position i of the trace is the stack before event i.          *)
(***************************************************************************)
Snap(b, u) == [board |-> b, unknown_values |-> u]

ReplayStep(stk, e) ==
    LET d   == e[2]
        cur == stk[d + 1]
        m   == mark_as_known(cur.board, cur.unknown_values, e[3], e[4], e[5])
    IN  CASE e[1] = "forced" ->
                Append(SubSeq(stk, 1, d), Snap(m.board, m.unknown_values))
          [] e[1] = "guess" ->
                Append(SubSeq(stk, 1, d + 1), Snap(m.board, m.unknown_values))
          [] e[1] = "back" ->
                IF e[6] = "Ok" THEN Append(SubSeq(stk, 1, d), stk[d + 2])
                ELSE SubSeq(stk, 1, d + 1)
          [] OTHER -> stk

\* the events lo..hi replayed after the trace tr (the trace of the first half
\* is bound as a value before the second half is replayed on it)
RECURSIVE ReplayRange(_, _, _, _)
ReplayRange(tr, lg, lo, hi) ==
    IF lo > hi THEN tr
    ELSE IF lo = hi THEN Append(tr, ReplayStep(tr[Len(tr)], lg[lo]))
    ELSE LET mid == (lo + hi) \div 2
         IN  CHOOSE r \in {ReplayRange(x, lg, mid + 1, hi) :
                              x \in {ReplayRange(tr, lg, lo, mid)}} : TRUE

\* the step is a call of solve
SolveStep == src' = "solve" /\ solves' = solves + 1

\* the trace of the call of a solve step
RunTrace == ReplayRange(<<<<Snap(board, unknown_values)>>>>, log', 1, Len(log'))

\* the board event i of the trace acts on
BoardAt(tr, lg, i) == tr[i][lg[i][2] + 1].board

\* the Unknown cells of a board with exactly one candidate, with none
Singles(b) == {k \in Positions : IsUnknown(Flat(b, k)) /\ Cardinality(Flat(b, k).set) = 1}
Empties(b) == {k \in Positions : IsUnknown(Flat(b, k)) /\ Flat(b, k).set = {}}

PosOf(e) == (e[3] - 1) * N + e[4]

(***************************************************************************)
(* C11.  Forced moves before guessing: in every call of solve, the clones  *)
(* included, a branch starts only on a board on which no Unknown cell has  *)
(* exactly one candidate, and every forced move commits, with its only     *)
(* candidate, the first Unknown cell in row-major order that has exactly   *)
(* one candidate on the board as the moves before it left it.              *)
(***************************************************************************)
C11_ForcedBeforeGuess ==
    [][SolveStep =>
        \A tr \in {RunTrace} : \A i \in 1..Len(log') :
            \A b \in {BoardAt(tr, log', i)} :
                /\ log'[i][1] = "branch" => Singles(b) = {}
                /\ log'[i][1] = "forced" =>
                      /\ Singles(b) # {}
                      /\ PosOf(log'[i]) = Min(Singles(b))
                      /\ Flat(b, Min(Singles(b))).set = {log'[i][5]}]_vars

\* a solve that made forced moves, then branched, and made forced moves on
\* the clone of a guess
C11_Witness ==
    /\ src = "solve" /\ LogAt0("branch") # <<>> /\ Len(LogAt0("forced")) >= 2
    /\ \E i \in 1..Len(log) : log[i][1] = "forced" /\ log[i][2] = 1

(***************************************************************************)
(* C12.  Branch cell selection: in every call of solve, the clones         *)
(* included, the cell of a branch is an Unknown cell of the board the      *)
(* branch starts on, the candidates tried are that cell's, their number is *)
(* the least number above zero that an Unknown cell of the board has, and  *)
(* no earlier cell in row-major order has that number of candidates.       *)
(***************************************************************************)
SizeAt(b, k) == Cardinality(Flat(b, k).set)

C12_BranchCell ==
    [][SolveStep =>
        \A tr \in {RunTrace} : \A i \in 1..Len(log') :
            log'[i][1] = "branch" =>
                \A b \in {BoardAt(tr, log', i)} : \A k \in {PosOf(log'[i])} :
                    /\ IsUnknown(Flat(b, k))
                    /\ Flat(b, k).set = log'[i][5]
                    /\ SizeAt(b, k) > 0
                    /\ \A j \in Positions :
                          (IsUnknown(Flat(b, j)) /\ SizeAt(b, j) > 0) =>
                              \/ SizeAt(b, j) > SizeAt(b, k)
                              \/ SizeAt(b, j) = SizeAt(b, k) /\ j >= k]_vars

\* a solve that branched and failed, so that the board is the one the branch
\* started on: a later cell has as few candidates as the cell of the branch,
\* and another cell has more
C12_Witness ==
    /\ src = "solve" /\ solves = 1 /\ last.res = "NotSolvable" /\ LogAt0("branch") # <<>>
    /\ LET k == PosOf(LogAt0("branch")[1])
       IN  /\ IsUnknown(Flat(board, k))
           /\ \E j \in Positions :
                 j > k /\ IsUnknown(Flat(board, j)) /\ SizeAt(board, j) = SizeAt(board, k)
           /\ \E j \in Positions :
                 IsUnknown(Flat(board, j)) /\ SizeAt(board, j) > SizeAt(board, k)

(***************************************************************************)
(* C13.  Zero-size set at branch selection: a call of solve that comes to  *)
(* the selection of a branch cell (unknown_values > 0 and no Unknown cell  *)
(* with exactly one candidate) on a board on which some Unknown cell has   *)
(* no candidate returns the error Unknown.                                 *)
(***************************************************************************)
\* the loop of solve up to its first turn that is not a forced move
ForcedMoves(b, u) ==
    LoopTurns([board |-> b, unknown_values |-> u, res |-> "Run", log |-> <<>>],
              0, N * N + 1)

C13_EmptySetGivesUnknown ==
    [][SolveStep =>
        \A st \in {ForcedMoves(board, unknown_values)} :
            (st.res = "Branch" /\ Empties(st.board) # {}) => last'.res = "Unknown"]_vars

(***************************************************************************)
(* C14.  Termination of solve: every call of solve comes to an end, and    *)
(* the first call on a board that fill returned returns Ok or an error.    *)
(* The number of Unknown cells is the measure: every forced move leaves    *)
(* strictly fewer Unknown cells on the board it acts on, and every clone   *)
(* a recursive call runs on has strictly fewer Unknown cells than the      *)
(* board it was cloned from had at the branch; so the loop of a call ends  *)
(* within 81 turns, the clones nest less than 81 deep, and a branch makes  *)
(* at most one attempt for each candidate of its cell.                     *)
(***************************************************************************)
NumUnknown(b) == Cardinality(UnknownCells(b))

\* the positions of the guesses of the branch of event i
GuessesOf(lg, i) ==
    {j \in (i + 1)..Len(lg) :
        /\ lg[j][1] = "guess" /\ lg[j][2] = lg[i][2]
        /\ \A h \in (i + 1)..j : lg[h][2] >= lg[i][2]}

C14_SolveTerminates ==
    [][SolveStep =>
        /\ last'.res # "Run"
        /\ solves' = 1 => last'.res # "Panic"
        /\ \A tr \in {RunTrace} : \A i \in 1..Len(log') : \A e \in {log'[i]} :
              /\ e[2] < N * N
              /\ e[1] = "back" => e[6] # "Run"
              /\ (e[1] = "back" /\ solves' = 1) => e[6] # "Panic"
              /\ e[1] = "forced" =>
                    NumUnknown(tr[i + 1][e[2] + 1].board) < NumUnknown(tr[i][e[2] + 1].board)
              /\ e[1] = "guess" =>
                    NumUnknown(tr[i + 1][e[2] + 2].board) < NumUnknown(tr[i][e[2] + 1].board)
              /\ e[1] = "branch" =>
                    Cardinality(GuessesOf(log', i)) <= Cardinality(e[5])]_vars

\* a first solve that returned after a clone's solve had cloned again
C14_Witness ==
    /\ src = "solve" /\ solves = 1 /\ last.res \in {"Ok", "NotSolvable"}
    /\ \E i \in 1..Len(log) : log[i][1] = "guess" /\ log[i][2] >= 1
    /\ \E i \in 1..Len(log) : log[i][1] = "forced" /\ log[i][2] >= 2

(***************************************************************************)
(* C15.  Cell transitions are one-directional: across a call of solve,     *)
(* whatever it returns, and across every forced move and every guess of    *)
(* the call, a Known cell stays Known with its value and the candidates of *)
(* a cell that stays Unknown are among those it had; the board the call    *)
(* leaves is the board of its forced moves, with the clone of the attempt  *)
(* that succeeded adopted if there is one, so that an attempt that failed  *)
(* leaves no cell of the board it was cloned from changed.                 *)
(***************************************************************************)
OneWay(b1, b2) ==
    \A k \in Positions :
        /\ IsKnown(Flat(b1, k)) => Flat(b2, k) = Flat(b1, k)
        /\ (IsUnknown(Flat(b1, k)) /\ IsUnknown(Flat(b2, k)))
              => Flat(b2, k).set \subseteq Flat(b1, k).set

\* the guess that the back event i closes
GuessOfBack(lg, i) ==
    CHOOSE j \in 1..i :
        /\ lg[j][1] = "guess" /\ lg[j][2] = lg[i][2]
        /\ \A h \in (j + 1)..(i - 1) : lg[h][2] > lg[i][2]

C15_OneWayCells ==
    [][SolveStep =>
        /\ OneWay(board, board')
        /\ \A tr \in {RunTrace} :
              /\ board' = tr[Len(tr)][1].board
              /\ unknown_values' = tr[Len(tr)][1].unknown_values
              /\ \A i \in 1..Len(log') : \A e \in {log'[i]} :
                    /\ e[1] = "forced" =>
                          OneWay(tr[i][e[2] + 1].board, tr[i + 1][e[2] + 1].board)
                    /\ e[1] = "guess" =>
                          OneWay(tr[i][e[2] + 1].board, tr[i + 1][e[2] + 2].board)
                    /\ (e[1] = "back" /\ e[6] # "Ok") =>
                          tr[i + 1][e[2] + 1] = tr[GuessOfBack(log', i)][e[2] + 1]]_vars

\* a solve that made forced moves, branched and failed in two attempts: the
\* cell of the branch is Unknown with the candidates it had at the branch
C15_Witness ==
    /\ src = "solve" /\ last.res = "NotSolvable"
    /\ LogAt0("forced") # <<>> /\ LogAt0("branch") # <<>>
    /\ Len(LogAt0("guess")) >= 2
    /\ Flat(board, PosOf(LogAt0("branch")[1])) = Unknown(LogAt0("branch")[1][5])

(***************************************************************************)
(* C16.  Range check of commit: a call of mark_as_known or                 *)
(* mark_single_option with a row or a column outside 1..9, 0 included,     *)
(* returns InvalidRange and leaves the board and the counter as they were. *)
(***************************************************************************)
C16_CommitRangeCheck ==
    [][(/\ last'.op \in {"mark_as_known", "mark_single_option"}
        /\ (last'.row \notin 1..N \/ last'.col \notin 1..N))
       => /\ last'.res = "InvalidRange"
          /\ live' = "board"
          /\ board' = board
          /\ unknown_values' = unknown_values]_vars

(***************************************************************************)
(* C17.  solve only reports NotSolvable: in every call of solve, the       *)
(* clones included, mark_single_option is called only with a row and a     *)
(* column in 1..9 on an Unknown cell with exactly one candidate, so that   *)
(* no call returns TooManyOptions, AlreadyKnown, InvalidRange or Unknown;  *)
(* the first call on a board that fill returned returns Ok or NotSolvable. *)
(***************************************************************************)
OtherErrors == {"TooManyOptions", "AlreadyKnown", "InvalidRange", "Unknown"}

C17_OnlyNotSolvable ==
    [][SolveStep =>
        /\ last'.res \notin OtherErrors
        /\ solves' = 1 => last'.res \in {"Ok", "NotSolvable"}
        /\ \A tr \in {RunTrace} : \A i \in 1..Len(log') : \A e \in {log'[i]} :
              /\ e[1] = "forced" =>
                    /\ e[3] \in 1..N /\ e[4] \in 1..N
                    /\ IsUnknown(Flat(BoardAt(tr, log', i), PosOf(e)))
                    /\ Cardinality(Flat(BoardAt(tr, log', i), PosOf(e)).set) = 1
                    /\ e[6] \in {"Ok", "NotSolvable"}
              /\ e[1] = "back" => e[6] \notin OtherErrors]_vars

\* a first solve that returned the NotSolvable of a forced move, and one of a
\* clone did the same
C17_Witness ==
    /\ src = "solve" /\ solves = 1 /\ last.res = "NotSolvable"
    /\ \E i \in 1..Len(log) : log[i][1] = "forced" /\ log[i][6] = "NotSolvable"
    /\ \E i \in 1..Len(log) : log[i][1] = "back" /\ log[i][6] = "NotSolvable"

(***************************************************************************)
(* C18.  The commit of a guess cannot fail in a single run: in the first   *)
(* call of solve on a board that fill returned, every Unknown cell of the  *)
(* board a branch starts on has at least two candidates, every             *)
(* mark_as_known of a guessed candidate on a clone returns Ok, and the     *)
(* clone the recursive call runs on has no Unknown cell without            *)
(* candidates.                                                             *)
(***************************************************************************)
C18_GuessCommitOk ==
    [][(SolveStep /\ solves' = 1) =>
        \A tr \in {RunTrace} : \A i \in 1..Len(log') : \A e \in {log'[i]} :
            /\ e[1] = "branch" =>
                  \A k \in UnknownCells(BoardAt(tr, log', i)) :
                      SizeAt(BoardAt(tr, log', i), k) >= 2
            /\ e[1] = "guess" =>
                  /\ e[6] = "Ok"
                  /\ Empties(tr[i + 1][e[2] + 2].board) = {}
                  /\ tr[i + 1][e[2] + 2].unknown_values = tr[i][e[2] + 1].unknown_values - 1]_vars

\* a first solve with a guess that failed, a guess that succeeded, and a
\* guess on the clone of a guess
C18_Witness ==
    /\ src = "solve" /\ solves = 1
    /\ \E i \in 1..Len(log) : log[i][1] = "back" /\ log[i][6] = "NotSolvable"
    /\ \E i \in 1..Len(log) : log[i][1] = "back" /\ log[i][6] = "Ok"
    /\ \E i \in 1..Len(log) : log[i][1] = "guess" /\ log[i][2] >= 1 /\ log[i][6] = "Ok"

====
